---------------------------- MODULE Spec2Model ----------------------------
(***************************************************************************)
(* Model of the colour logic of ColorApp (src/script.js): the palette      *)
(* state (colors, locked, mode), the operations that change it             *)
(* (generatePalette, the harmony-select change handler, toggleLock,        *)
(* regenerateSingleColor) and the pure helpers calculateHarmonies,         *)
(* hslToHex and getContrastColor.                                          *)
(*                                                                         *)
(* A hex colour is a sequence of one-character strings, so that length,    *)
(* digits and letter case are things a check can refute.  Numbers are      *)
(* exact: the floating-point arithmetic of hslToHex is followed in         *)
(* integers scaled by 300000, and only the rounding of a value exactly     *)
(* halfway between two integers is left open (see MathRound).  The hues    *)
(* Math.random() * 360 gives the default branch are taken at whole         *)
(* degrees.                                                                *)
(*                                                                         *)
(* Left out: the theme flag, the toast, the tooltip, the clipboard and     *)
(* the SVG recolouring, none of which reads or writes colors, locked or    *)
(* mode.  Card indices are taken to be 0..4, as the markup gives them.     *)
(***************************************************************************)
EXTENDS Integers, Sequences, FiniteSets, TLC

VARIABLES
    colors,         \* this.state.colors : 5 hex strings
    locked,         \* this.state.locked : 5 booleans
    mode,           \* this.state.mode
    ui,             \* what updateUI last wrote for each card
    op,             \* last operation applied to the state: [name, index]
    base,           \* the random base colour of the last generatePalette
    harmonyColors,  \* the harmonyColors array of the last generatePalette
    steps,          \* number of user operations so far (bounded)
    hArgs, hRet,    \* a call of calculateHarmonies: arguments, returned array
    xArgs, xRet,    \* a call of hslToHex: arguments, returned string
    cArgs, cRet     \* a call of getContrastColor: argument, outcome

vars == <<colors, locked, mode, ui, op, base, harmonyColors, steps,
          hArgs, hRet, xArgs, xRet, cArgs, cRet>>

stateVars == <<colors, locked, mode, ui, op, base, harmonyColors, steps>>
hVars == <<hArgs, hRet>>
xVars == <<xArgs, xRet>>
cVars == <<cArgs, cRet>>

-----------------------------------------------------------------------------
(* Program constants *)

totalColors == 5
HueCircle == 360
MaxPercent == 100

Slots == 1..totalColors      \* slot i of the model is index i-1 of the code

RecognizedModes == {"monochromatic", "analogous", "complementary",
                    "triadic", "split-complementary", "square"}

\* A value of the harmony select that no case of the switch matches.
UnrecognizedModes == {"random"}

Modes == RecognizedModes \cup UnrecognizedModes

defaultMode == "analogous"

-----------------------------------------------------------------------------
(* Bounds of the model *)

HueStep == 15       \* hues tried: the multiples of HueStep and their predecessors
SatStep == 10       \* saturations tried: the multiples of SatStep, and a few more

Hues == {h \in 0..(HueCircle - 1) :
            h % HueStep = 0 \/ h % HueStep = HueStep - 1} \cup {10}
Sats == {s \in 0..MaxPercent : s % SatStep = 0} \cup {5, 15, 50, MaxPercent}
Lights == 0..MaxPercent

\* Arguments of hslToHex tried: h, s and l on grids that hold the primaries.
XHueStep == 7
XSatStep == 5
XHues == {h \in 0..(HueCircle - 1) : h % XHueStep = 0} \cup {0, 120, 240}
XSats == {s \in 0..MaxPercent : s % XSatStep = 0} \cup {0, MaxPercent}

\* Arguments of getContrastColor tried.  Well-formed literals take their
\* channels from a grid that holds both sides of the threshold, in either
\* letter case; the other strings are truncations, extensions and
\* one-character corruptions of a few literals, and the word "red".
ChannelStep == 17
MaxChannel == 255
ChannelValues == {v \in 0..MaxChannel : v % ChannelStep = 0} \cup {127, 128, MaxChannel}
FewChannelValues == {0, 15, 128, MaxChannel}
BadChars == {"G", "-", " ", "x"}

\* User operations in a run, and the random draws tried in them.
MaxSteps == 3
BaseHues == {10, 200}       \* of Math.floor(Math.random() * 360)
BaseSats == {70}            \* of Math.floor(Math.random() * 60) + 40
BaseLights == {50}          \* of Math.floor(Math.random() * 40) + 35
RegenHues == {0, 300}       \* of Math.floor(Math.random() * 360)
RegenSats == {50}           \* of Math.floor(Math.random() * 40) + 50
RegenLights == {40}         \* of Math.floor(Math.random() * 40) + 40

\* The five values of Math.random() * 360 drawn in the default branch, taken
\* at whole degrees; no value is drawn in the other branches.
RandomSequences == { <<47, 301, 47, 12, 359>>, <<301, 301, 0, 200, 47>> }
NoRandom == [i \in Slots |-> 0]
RandomDraws(m) == IF m \in RecognizedModes THEN {NoRandom} ELSE RandomSequences

-----------------------------------------------------------------------------
(* calculateHarmonies *)

Max2(a, b) == IF a >= b THEN a ELSE b
Min2(a, b) == IF a <= b THEN a ELSE b

\* The % of JavaScript: the remainder has the sign of the dividend.
Rem(a, n) == IF a >= 0 THEN a % n ELSE 0 - ((0 - a) % n)

clip_noLower(val, min, max) == Min2(val, max)

clip(val, min, max) == Max2(min, Min2(val, max))

HSL(h, s, l) == [h |-> h, s |-> s, l |-> l]

monochromatic_top90(h, s, l) ==
    << HSL(h, s, clip(l - 30, 20, 90)),
       HSL(h, s, clip(l - 15, 20, 90)),
       HSL(h, s, l),
       HSL(h, s, clip(l + 15, 20, 90)),
       HSL(h, s, clip(l + 30, 20, 90)) >>

monochromatic(h, s, l) ==
    << HSL(h, s, clip(l - 30, 20, 90)),
       HSL(h, s, clip(l - 15, 20, 90)),
       HSL(h, s, l),
       HSL(h, s, clip(l + 15, 20, 90)),
       HSL(h, s, clip(l + 30, 20, 95)) >>

analogous_noWrap(h, s, l) ==
    << HSL(Rem(h - 30, 360), s, l),
       HSL(Rem(h - 15, 360), s, l),
       HSL(h, s, l),
       HSL(h + 15, s, l),
       HSL(h + 30, s, l) >>

analogous(h, s, l) ==
    << HSL(Rem(h - 30 + 360, 360), s, l),
       HSL(Rem(h - 15 + 360, 360), s, l),
       HSL(h, s, l),
       HSL(Rem(h + 15, 360), s, l),
       HSL(Rem(h + 30, 360), s, l) >>

complementary(h, s, l) ==
    << HSL(h, s, l),
       HSL(h, s, clip(l + 25, 20, 90)),
       HSL(h, Max2(s - 20, 0), clip(l + 45, 80, 98)),
       HSL(Rem(h + 180, 360), s, l),
       HSL(Rem(h + 180, 360), s, clip(l - 20, 10, 80)) >>

triadic_swapped(h, s, l) ==
    << HSL(h, s, l),
       HSL(Rem(h + 120, 360), s, l),
       HSL(Rem(h + 240, 360), s, l),
       HSL(Rem(h + 240, 360), s, clip(l + 20, 20, 90)),
       HSL(Rem(h + 120, 360), s, clip(l - 20, 20, 90)) >>

triadic(h, s, l) ==
    << HSL(h, s, l),
       HSL(Rem(h + 120, 360), s, l),
       HSL(Rem(h + 240, 360), s, l),
       HSL(Rem(h + 120, 360), s, clip(l + 20, 20, 90)),
       HSL(Rem(h + 240, 360), s, clip(l - 20, 20, 90)) >>

splitComplementary(h, s, l) ==
    << HSL(h, s, l),
       HSL(Rem(h + 150, 360), s, l),
       HSL(Rem(h + 210, 360), s, l),
       HSL(Rem(h + 150, 360), Max2(s - 10, 0), clip(l + 20, 70, 95)),
       HSL(Rem(h + 210, 360), Max2(s - 10, 0), clip(l - 20, 10, 50)) >>

square(h, s, l) ==
    << HSL(h, s, l),
       HSL(Rem(h + 90, 360), s, l),
       HSL(Rem(h + 180, 360), s, l),
       HSL(Rem(h + 270, 360), s, l),
       HSL(Rem(h + 90, 360), s, clip(l + 30, 80, 95)) >>

\* rnd[i] is the hue drawn by the i-th Math.random() of the default branch.
calculateHarmonies(m, h, s, l, rnd) ==
    CASE m = "monochromatic"       -> monochromatic(h, s, l)
      [] m = "analogous"           -> analogous(h, s, l)
      [] m = "complementary"       -> complementary(h, s, l)
      [] m = "triadic"             -> triadic(h, s, l)
      [] m = "split-complementary" -> splitComplementary(h, s, l)
      [] m = "square"              -> square(h, s, l)
      [] OTHER                     -> [i \in Slots |-> HSL(rnd[i], 60, 50)]

-----------------------------------------------------------------------------
(* hslToHex *)

HexDigits == << "0", "1", "2", "3", "4", "5", "6", "7",
                "8", "9", "a", "b", "c", "d", "e", "f" >>

\* Number.prototype.toString(16) of an integer.
toString16[v \in Int] ==
    IF v < 0 THEN <<"-">> \o toString16[0 - v]
    ELSE IF v < 16 THEN << HexDigits[v + 1] >>
    ELSE toString16[v \div 16] \o << HexDigits[(v % 16) + 1] >>

\* String.prototype.padStart(n, ch)
padStart(str, n, ch) ==
    IF Len(str) >= n THEN str
    ELSE [i \in 1..(n - Len(str)) |-> ch] \o str

UpperChar(c) ==
    CASE c = "a" -> "A" [] c = "b" -> "B" [] c = "c" -> "C"
      [] c = "d" -> "D" [] c = "e" -> "E" [] c = "f" -> "F"
      [] c = "r" -> "R" [] c = "g" -> "G" [] c = "x" -> "X"
      [] OTHER -> c

\* String.prototype.toUpperCase()
toUpperCase(str) == [i \in 1..Len(str) |-> UpperChar(str[i])]

\* Math.round(num / den) for den > 0, i.e. floor(num/den + 1/2).  The code
\* rounds 255 * color, a product of binary floating-point numbers; where the
\* exact value lies halfway between two integers, the rounding error of that
\* arithmetic decides the direction, so both neighbours are possible: `up`
\* tells which one the arithmetic produced.
MathRound(num, den, up) ==
    LET q == (2 * num + den) \div (2 * den)
        tie == (2 * num + den) % (2 * den) = 0
    IN  IF tie /\ ~up THEN q - 1 ELSE q

Min3(a, b, c) == Min2(a, Min2(b, c))

\* Math.round(255 * color) of f(n), in exact arithmetic:
\*   k = (n + h/30) % 12                       k30 = 30 * k
\*   Math.max(Math.min(k - 3, 9 - k, 1), -1)   t30 = 30 * that
\*   a = s * Math.min(l, 1 - l) / 100  (l already divided by 100)
\*   color = l - a * t = (3000*l - s*min(l,100-l)*t30) / 300000
channel(n, h, s, l, up) ==
    LET k30 == Rem(30 * n + h, 360)
        t30 == Max2(Min3(k30 - 90, 270 - k30, 30), -30)
        m   == Min2(l, 100 - l)
    IN  MathRound(255 * (3000 * l - s * m * t30), 300000, up)

f(n, h, s, l, up) == padStart(toString16[channel(n, h, s, l, up)], 2, "0")

hslToHex_noPad(h, s, l, ups) ==
    toUpperCase(<<"#">> \o toString16[channel(0, h, s, l, ups[1])]
                        \o toString16[channel(8, h, s, l, ups[2])]
                        \o toString16[channel(4, h, s, l, ups[3])])

hslToHex_rbg(h, s, l, ups) ==
    toUpperCase(<<"#">> \o f(0, h, s, l, ups[1])
                        \o f(4, h, s, l, ups[2])
                        \o f(8, h, s, l, ups[3]))

\* ups[c] is the direction of a halfway rounding in channel c (1 = red ...).
hslToHex(h, s, l, ups) ==
    toUpperCase(<<"#">> \o f(0, h, s, l, ups[1])
                        \o f(8, h, s, l, ups[2])
                        \o f(4, h, s, l, ups[3]))

\* The exact value of 255 * color in f(n) is halfway between two integers.
Halfway(n, h, s, l) == channel(n, h, s, l, TRUE) # channel(n, h, s, l, FALSE)

\* The directions f(n) can round in: both when halfway, else one.
Directions(n, h, s, l) == IF Halfway(n, h, s, l) THEN BOOLEAN ELSE {TRUE}

\* The rounding directions of the three channels that can occur.
Roundings(h, s, l) ==
    { <<r, g, b>> : r \in Directions(0, h, s, l),
                    g \in Directions(8, h, s, l),
                    b \in Directions(4, h, s, l) }

\* Every string hslToHex(h, s, l) can return.
hslToHexResults(h, s, l) == { hslToHex(h, s, l, ups) : ups \in Roundings(h, s, l) }

-----------------------------------------------------------------------------
(* getContrastColor *)

\* A JavaScript number that parseInt can return: an integer or NaN.
Num(v) == [nan |-> FALSE, val |-> v]
NaN == [nan |-> TRUE, val |-> 0]

\* String.prototype.substr(start, length), start >= 0
substr(str, start, length) ==
    SubSeq(str, start + 1, Min2(start + length, Len(str)))

UpperDigits == << "0", "1", "2", "3", "4", "5", "6", "7",
                  "8", "9", "A", "B", "C", "D", "E", "F" >>

IsHexDigit(c) == \E d \in 1..16 : c = HexDigits[d] \/ c = UpperDigits[d]

DigitValue(c) == (CHOOSE d \in 1..16 : c = HexDigits[d] \/ c = UpperDigits[d]) - 1

RECURSIVE TrimStart(_)
TrimStart(str) ==
    IF str # <<>> /\ Head(str) = " " THEN TrimStart(Tail(str)) ELSE str

\* The value of the longest prefix of hexadecimal digits of str, continuing
\* from acc; seen tells whether a digit was read.
RECURSIVE ParseDigits(_, _, _)
ParseDigits(str, acc, seen) ==
    IF str # <<>> /\ IsHexDigit(Head(str))
    THEN ParseDigits(Tail(str), 16 * acc + DigitValue(Head(str)), TRUE)
    ELSE IF seen THEN Num(acc) ELSE NaN

parseInt16_zeroForNaN(str) ==
    LET t == TrimStart(str)
        signed == t # <<>> /\ Head(t) \in {"-", "+"}
        u == IF signed THEN Tail(t) ELSE t
        prefixed == Len(u) >= 2 /\ u[1] = "0" /\ u[2] \in {"x", "X"}
        r == ParseDigits(IF prefixed THEN SubSeq(u, 3, Len(u)) ELSE u, 0, TRUE)
    IN  IF ~r.nan /\ signed /\ Head(t) = "-" THEN Num(0 - r.val) ELSE r

\* parseInt(str, 16): leading white space, a sign and a 0x prefix are skipped,
\* digits are read up to the first character that is none; NaN if none is read.
parseInt16(str) ==
    LET t == TrimStart(str)
        signed == t # <<>> /\ Head(t) \in {"-", "+"}
        u == IF signed THEN Tail(t) ELSE t
        prefixed == Len(u) >= 2 /\ u[1] = "0" /\ u[2] \in {"x", "X"}
        r == ParseDigits(IF prefixed THEN SubSeq(u, 3, Len(u)) ELSE u, 0, FALSE)
    IN  IF ~r.nan /\ signed /\ Head(t) = "-" THEN Num(0 - r.val) ELSE r

\* 1000 * yiq; NaN when a channel is NaN.
yiq1000(r, g, b) ==
    IF r.nan \/ g.nan \/ b.nan THEN NaN
    ELSE Num(r.val * 299 + g.val * 587 + b.val * 114)

\* A comparison with NaN is false.
GreaterEq(n, c) == ~n.nan /\ n.val >= c

DarkColor == << "#", "0", "f", "1", "2", "1", "9" >>
LightColor == << "#", "f", "f", "f", "f", "f", "f" >>

Returned(v) == [kind |-> "return", value |-> v]
NotCalled == [kind |-> "none", value |-> <<>>]

getContrastColor_strict(hex) ==
    LET r == parseInt16(substr(hex, 1, 2))
        g == parseInt16(substr(hex, 3, 2))
        b == parseInt16(substr(hex, 5, 2))
    IN  IF GreaterEq(yiq1000(r, g, b), 128001)
        THEN Returned(DarkColor) ELSE Returned(LightColor)

\* The outcome of getContrastColor(hex) for a string hex: the function has no
\* throw and no check of its argument, so it always returns.
getContrastColor(hex) ==
    LET r == parseInt16(substr(hex, 1, 2))
        g == parseInt16(substr(hex, 3, 2))
        b == parseInt16(substr(hex, 5, 2))
    IN  IF GreaterEq(yiq1000(r, g, b), 128000)
        THEN Returned(DarkColor) ELSE Returned(LightColor)

-----------------------------------------------------------------------------
(* The palette state and the operations on it *)

Black == << "#", "0", "0", "0", "0", "0", "0" >>

\* No call of a pure function is being observed.
HIdle == hArgs = [mode |-> defaultMode, h |-> 0, s |-> 0, l |-> 0] /\ hRet = <<>>
XIdle == xArgs = [h |-> 0, s |-> 0, l |-> 0] /\ xRet = <<>>
CIdle == cArgs = <<>> /\ cRet = NotCalled

\* updateUI: for each card the CSS variable --c-i, the contrast variable
\* --text-c-i and the lock visuals.
updateUI(cols, lck) ==
    [i \in Slots |-> [color    |-> cols[i],
                      contrast |-> getContrastColor(cols[i]).value,
                      lock     |-> lck[i]]]

\* The strings hslToHex can return for each triple of harmony, slot by slot.
RECURSIVE HexChoices(_, _)
HexChoices(harmony, n) ==
    IF n = 0 THEN { <<>> }
    ELSE { Append(p, x) :
             p \in HexChoices(harmony, n - 1),
             x \in hslToHexResults(harmony[n].h, harmony[n].s, harmony[n].l) }

generatedColors_ignoreLocks(cols, lck, hexes) ==
    [i \in Slots |-> hexes[i]]

generatedColors_lockInverted(cols, lck, hexes) ==
    [i \in Slots |-> IF lck[i] THEN hexes[i] ELSE cols[i]]

\* Step 3 of generatePalette: the colours after the forEach over harmonyColors,
\* hexes[i] being hslToHex of the i-th triple.
generatedColors(cols, lck, hexes) ==
    [i \in Slots |-> IF ~lck[i] THEN hexes[i] ELSE cols[i]]

\* generatePalette() run in mode m on the colours cols, as the operation named.
generatePalette(m, cols, name) ==
    \E baseH \in BaseHues, baseS \in BaseSats, baseL \in BaseLights :
    \E rnd \in RandomDraws(m) :
        \E harmony \in { calculateHarmonies(m, baseH, baseS, baseL, rnd) } :
            \E hexes \in HexChoices(harmony, Len(harmony)) :
              /\ base' = HSL(baseH, baseS, baseL)
              /\ harmonyColors' = harmony
              /\ colors' = generatedColors(cols, locked, hexes)
              /\ ui' = updateUI(colors', locked)
              /\ op' = [name |-> name, index |-> 0]

\* The state the constructor leaves: the fields as initialised, then init()
\* has called generatePalette() once.
Init ==
    /\ locked = [i \in Slots |-> FALSE]
    /\ mode = defaultMode
    /\ \E baseH \in BaseHues, baseS \in BaseSats, baseL \in BaseLights :
          LET harmony == calculateHarmonies(defaultMode, baseH, baseS, baseL, NoRandom)
          IN  /\ base = HSL(baseH, baseS, baseL)
              /\ harmonyColors = harmony
              /\ colors \in { generatedColors([i \in Slots |-> Black], locked, hexes) :
                                hexes \in HexChoices(harmony, Len(harmony)) }
    /\ ui = updateUI(colors, locked)
    /\ op = [name |-> "constructor", index |-> 0]
    /\ steps = 0
    /\ HIdle /\ XIdle /\ CIdle

\* Click on the generate button, or the space bar.
GeneratePalette ==
    /\ steps < MaxSteps
    /\ generatePalette(mode, colors, "generatePalette")
    /\ steps' = steps + 1
    /\ UNCHANGED <<locked, mode, hVars, xVars, cVars>>

\* The change handler of the harmony select: set the mode, then generatePalette().
ChangeMode ==
    /\ steps < MaxSteps
    /\ \E m \in Modes \ {mode} :
          /\ mode' = m
          /\ generatePalette(m, colors, "changeMode")
    /\ steps' = steps + 1
    /\ UNCHANGED <<locked, hVars, xVars, cVars>>

ToggleLock(index) ==
    /\ steps < MaxSteps
    /\ locked' = [locked EXCEPT ![index] = ~locked[index]]
    /\ ui' = updateUI(colors, locked')
    /\ op' = [name |-> "toggleLock", index |-> index]
    /\ steps' = steps + 1
    /\ UNCHANGED <<colors, mode, base, harmonyColors, hVars, xVars, cVars>>

RegenerateSingleColor(index) ==
    /\ steps < MaxSteps
    /\ \E h \in RegenHues, s \in RegenSats, l \in RegenLights :
       \E hex \in hslToHexResults(h, s, l) :
          colors' = [colors EXCEPT ![index] = hex]
    /\ ui' = updateUI(colors', locked)
    /\ op' = [name |-> "regenerateSingleColor", index |-> index]
    /\ steps' = steps + 1
    /\ UNCHANGED <<locked, mode, base, harmonyColors, hVars, xVars, cVars>>

\* copyToClipboard changes nothing of the palette state.
CopyHex(index) ==
    /\ steps < MaxSteps
    /\ op' = [name |-> "copyToClipboard", index |-> index]
    /\ steps' = steps + 1
    /\ UNCHANGED <<colors, locked, mode, ui, base, harmonyColors, hVars, xVars, cVars>>

\* A click on one of the three buttons of card index.
HandlePaletteClick ==
    \E index \in Slots :
        \/ ToggleLock(index)
        \/ CopyHex(index)
        \/ RegenerateSingleColor(index)

Next == GeneratePalette \/ ChangeMode \/ HandlePaletteClick

Spec == Init /\ [][Next]_vars

-----------------------------------------------------------------------------
(* Claims about the palette state (checked under Spec) *)

\* The step is a generatePalette() call: the button or space bar, or the call
\* the mode-change handler makes after it has set the mode.
GenerateStep == op'.name \in {"generatePalette", "changeMode"}

\* C2: generatePalette changes only unlocked slots: a locked slot keeps its
\* colour, an unlocked slot becomes hslToHex of the i-th triple that
\* calculateHarmonies returns for the chosen base, and the lock mask and the
\* mode are left unchanged.
C2_GenerateChangesOnlyUnlocked ==
    [][ GenerateStep =>
          /\ harmonyColors' \in
                { calculateHarmonies(mode', base'.h, base'.s, base'.l, rnd) :
                    rnd \in RandomDraws(mode') }
          /\ \A i \in Slots :
                IF locked[i]
                THEN colors'[i] = colors[i]
                ELSE colors'[i] \in hslToHexResults(harmonyColors'[i].h,
                                                    harmonyColors'[i].s,
                                                    harmonyColors'[i].l)
          /\ locked' = locked
          /\ (op'.name = "generatePalette" => mode' = mode) ]_vars

\* A palette was generated with slot 1 locked and slot 2 not: slot 2 has the
\* colour of the new harmony, slot 1 a colour the new harmony does not give.
C2_Witness ==
    /\ op.name = "generatePalette"
    /\ locked[1] /\ ~locked[2]
    /\ colors[2] \in hslToHexResults(harmonyColors[2].h, harmonyColors[2].s,
                                     harmonyColors[2].l)
    /\ colors[1] \notin hslToHexResults(harmonyColors[1].h, harmonyColors[1].s,
                                        harmonyColors[1].l)

\* C10 as stated: a slot's colour does not change while the slot is locked:
\* if locked[i] holds before an operation other than toggleLock(i), colors[i]
\* is the same after it.
C10_LockedColorNeverChanges ==
    [][ \A i \in Slots :
          (locked[i] /\ ~(op'.name = "toggleLock" /\ op'.index = i))
             => colors'[i] = colors[i] ]_vars

\* C10 as amended: if locked[i] holds before an operation other than
\* regenerateSingleColor(i), colors[i] is the same after it; generatePalette,
\* a mode change, toggleLock and the regeneration of another slot keep it.
\* regenerateSingleColor(i) itself does not look at the lock.
C10_LockedColorKeptExceptOwnRegenerate ==
    [][ \A i \in Slots :
          (locked[i] /\ ~(op'.name = "regenerateSingleColor" /\ op'.index = i))
             => colors'[i] = colors[i] ]_vars

\* The mode was changed with slot 3 locked, and slot 3 still has a colour of
\* the analogous palette it was locked in while its neighbours were redone.
C10_Witness ==
    /\ op.name = "changeMode"
    /\ mode = "triadic"
    /\ locked[3]
    /\ colors[3] \in hslToHexResults(base.h, base.s, base.l)
    /\ colors[3] \notin hslToHexResults(harmonyColors[3].h, harmonyColors[3].s,
                                        harmonyColors[3].l)

-----------------------------------------------------------------------------
(* The pure functions, each called once on arguments drawn from its domain *)

\* The palette state while only a pure function is exercised.
StateIdle ==
    /\ colors = [i \in Slots |-> Black]
    /\ locked = [i \in Slots |-> FALSE]
    /\ mode = defaultMode
    /\ ui = <<>>
    /\ op = [name |-> "none", index |-> 0]
    /\ base = HSL(0, 0, 0)
    /\ harmonyColors = <<>>
    /\ steps = 0

InitHarmonies ==
    /\ hArgs \in [mode : RecognizedModes, h : Hues, s : Sats, l : Lights]
    /\ hRet = <<>>
    /\ StateIdle /\ XIdle /\ CIdle

CallCalculateHarmonies ==
    /\ hRet = <<>>
    /\ \E rnd \in RandomDraws(hArgs.mode) :
          hRet' = calculateHarmonies(hArgs.mode, hArgs.h, hArgs.s, hArgs.l, rnd)
    /\ UNCHANGED <<hArgs, stateVars, xVars, cVars>>

NextHarmonies == CallCalculateHarmonies

SpecHarmonies == InitHarmonies /\ [][NextHarmonies]_vars

-----------------------------------------------------------------------------
(* Claims about calculateHarmonies (checked under SpecHarmonies) *)

Clamp(v, lo, hi) == IF v < lo THEN lo ELSE IF v > hi THEN hi ELSE v

HCalled(m) == hRet # <<>> /\ hArgs.mode = m

\* The lightness interval of the slots a mode clamps; <<>> for a slot that
\* carries a lightness through unclamped.
ClampInterval(m, i) ==
    CASE m = "monochromatic" /\ i \in {1, 2, 4}  -> <<20, 90>>
      [] m = "monochromatic" /\ i = 5            -> <<20, 95>>
      [] m = "complementary" /\ i = 2            -> <<20, 90>>
      [] m = "complementary" /\ i = 3            -> <<80, 98>>
      [] m = "complementary" /\ i = 5            -> <<10, 80>>
      [] m = "triadic" /\ i \in {4, 5}           -> <<20, 90>>
      [] m = "split-complementary" /\ i = 4      -> <<70, 95>>
      [] m = "split-complementary" /\ i = 5      -> <<10, 50>>
      [] m = "square" /\ i = 5                   -> <<80, 95>>
      [] OTHER                                   -> <<>>

C3_MonochromaticAllClamped ==
    HCalled("monochromatic") =>
        /\ hRet = << HSL(hArgs.h, hArgs.s, Clamp(hArgs.l - 30, 20, 90)),
                     HSL(hArgs.h, hArgs.s, Clamp(hArgs.l - 15, 20, 90)),
                     HSL(hArgs.h, hArgs.s, Clamp(hArgs.l, 20, 90)),
                     HSL(hArgs.h, hArgs.s, Clamp(hArgs.l + 15, 20, 90)),
                     HSL(hArgs.h, hArgs.s, Clamp(hArgs.l + 30, 20, 95)) >>
        /\ \A i \in 1..Len(hRet) : hRet[i].l \in 20..95

\* C3 as amended: in monochromatic mode all five results keep h and s; slots
\* 0, 1 and 3 are l-30, l-15 and l+15 clamped to [20,90], slot 4 is l+30
\* clamped to [20,95], and the middle slot 2 is the base lightness l itself,
\* unclamped, so that it lies in [20,95] only when l does.
C3_MonochromaticBaseUnclamped ==
    HCalled("monochromatic") =>
        /\ Len(hRet) = 5
        /\ \A i \in 1..Len(hRet) : hRet[i].h = hArgs.h /\ hRet[i].s = hArgs.s
        /\ hRet[1].l = Clamp(hArgs.l - 30, 20, 90)
        /\ hRet[2].l = Clamp(hArgs.l - 15, 20, 90)
        /\ hRet[3].l = hArgs.l
        /\ hRet[4].l = Clamp(hArgs.l + 15, 20, 90)
        /\ hRet[5].l = Clamp(hArgs.l + 30, 20, 95)
        /\ \A i \in {1, 2, 4, 5} : hRet[i].l \in 20..95
        /\ (hRet[3].l \in 20..95 <=> hArgs.l \in 20..95)

\* A monochromatic palette of a base darker than every clamp floor.
C3_Witness ==
    /\ HCalled("monochromatic")
    /\ hArgs.l = 10
    /\ hRet[3].l = 10 /\ hRet[1].l = 20 /\ hRet[5].l = 40

\* C4: in triadic mode the result is {h,s,l}, {(h+120) mod 360,s,l},
\* {(h+240) mod 360,s,l}, {(h+120) mod 360,s,clip(l+20,20,90)},
\* {(h+240) mod 360,s,clip(l-20,20,90)}; base (0,50,50) gives (0,50,50),
\* (120,50,50), (240,50,50), (120,50,70), (240,50,30).
C4_Triadic ==
    HCalled("triadic") =>
        /\ hRet = << HSL(hArgs.h, hArgs.s, hArgs.l),
                     HSL((hArgs.h + 120) % 360, hArgs.s, hArgs.l),
                     HSL((hArgs.h + 240) % 360, hArgs.s, hArgs.l),
                     HSL((hArgs.h + 120) % 360, hArgs.s, Clamp(hArgs.l + 20, 20, 90)),
                     HSL((hArgs.h + 240) % 360, hArgs.s, Clamp(hArgs.l - 20, 20, 90)) >>
        /\ (hArgs.h = 0 /\ hArgs.s = 50 /\ hArgs.l = 50) =>
              hRet = << HSL(0, 50, 50), HSL(120, 50, 50), HSL(240, 50, 50),
                        HSL(120, 50, 70), HSL(240, 50, 30) >>

\* The triadic palette of the base (0,50,50).
C4_Witness ==
    /\ HCalled("triadic")
    /\ hArgs.h = 0 /\ hArgs.s = 50 /\ hArgs.l = 50
    /\ hRet[4] = HSL(120, 50, 70)

\* C5: in analogous mode the five results keep the base s and l and their hues
\* are h-30, h-15, h, h+15, h+30 reduced to [0,360) by the non-negative modulo;
\* base hue 10 gives the hues 340, 355, 10, 25, 40.
C5_Analogous ==
    HCalled("analogous") =>
        /\ Len(hRet) = 5
        /\ \A i \in 1..Len(hRet) :
              /\ hRet[i].s = hArgs.s /\ hRet[i].l = hArgs.l
              /\ hRet[i].h = (hArgs.h + 15 * (i - 3)) % 360
              /\ hRet[i].h >= 0 /\ hRet[i].h < 360
        /\ hArgs.h = 10 =>
              [i \in 1..5 |-> hRet[i].h] = <<340, 355, 10, 25, 40>>

\* The analogous palette of a base of hue 10, whose lower hues wrap.
C5_Witness ==
    /\ HCalled("analogous")
    /\ hArgs.h = 10 /\ hArgs.s = 50 /\ hArgs.l = 50
    /\ hRet[1].h = 340

-----------------------------------------------------------------------------
(* hslToHex called once *)

InitHslToHex ==
    /\ xArgs \in [h : XHues, s : XSats, l : Lights]
    /\ xRet = <<>>
    /\ StateIdle /\ HIdle /\ CIdle

CallHslToHex ==
    /\ xRet = <<>>
    /\ xRet' \in hslToHexResults(xArgs.h, xArgs.s, xArgs.l)
    /\ UNCHANGED <<xArgs, stateVars, hVars, cVars>>

NextHslToHex == CallHslToHex

SpecHslToHex == InitHslToHex /\ [][NextHslToHex]_vars

UpperHexChars == {UpperDigits[d] : d \in 1..16}

XCalled(h, s, l) == xRet # <<>> /\ xArgs = [h |-> h, s |-> s, l |-> l]

\* C6: for every h in [0,360), s and l in [0,100], hslToHex returns exactly 7
\* characters, '#' followed by six uppercase hexadecimal digits; each rounded
\* channel value is an integer in [0,255].
C6_HexFormat ==
    xRet # <<>> =>
        /\ Len(xRet) = 7
        /\ xRet[1] = "#"
        /\ \A i \in 2..Len(xRet) : xRet[i] \in UpperHexChars
        /\ \A n \in {0, 8, 4} : \A up \in BOOLEAN :
              channel(n, xArgs.h, xArgs.s, xArgs.l, up) \in 0..255

\* A colour with a channel below 16, which needs the padding digit, and a
\* channel whose exact value is halfway between two integers.
C6_Witness ==
    /\ XCalled(0, 80, 50)
    /\ xRet \in { << "#", "E", "6", "1", "9", "1", "9" >>,
                  << "#", "E", "6", "1", "A", "1", "A" >> }
    /\ channel(8, 0, 80, 50, TRUE) # channel(8, 0, 80, 50, FALSE)

\* C7: hslToHex(0,0,0) = "#000000", hslToHex(0,0,100) = "#FFFFFF",
\* hslToHex(0,100,50) = "#FF0000", hslToHex(120,100,50) = "#00FF00" and
\* hslToHex(240,100,50) = "#0000FF".
C7_ReferenceConversions ==
    /\ XCalled(0, 0, 0) => xRet = << "#", "0", "0", "0", "0", "0", "0" >>
    /\ XCalled(0, 0, 100) => xRet = << "#", "F", "F", "F", "F", "F", "F" >>
    /\ XCalled(0, 100, 50) => xRet = << "#", "F", "F", "0", "0", "0", "0" >>
    /\ XCalled(120, 100, 50) => xRet = << "#", "0", "0", "F", "F", "0", "0" >>
    /\ XCalled(240, 100, 50) => xRet = << "#", "0", "0", "0", "0", "F", "F" >>

\* The conversion of pure green has returned.
C7_Witness ==
    /\ XCalled(120, 100, 50)
    /\ xRet = << "#", "0", "0", "F", "F", "0", "0" >>

-----------------------------------------------------------------------------
(* getContrastColor called once *)

Hex2(v, digits) == << digits[(v \div 16) + 1], digits[(v % 16) + 1] >>

HexLiteral(r, g, b, digits) ==
    <<"#">> \o Hex2(r, digits) \o Hex2(g, digits) \o Hex2(b, digits)

Literals(values) ==
    { HexLiteral(r, g, b, digits) :
        r \in values, g \in values, b \in values,
        digits \in {HexDigits, UpperDigits} }

\* A 7-character #RRGGBB literal.
IsHexLiteral(str) ==
    /\ Len(str) = 7
    /\ str[1] = "#"
    /\ \A i \in 2..7 : IsHexDigit(str[i])

WellFormedInputs == Literals(ChannelValues)

MalformedInputs ==
    { str \in
        { SubSeq(w, 1, n) : w \in Literals(FewChannelValues), n \in 0..6 }
        \cup { [w EXCEPT ![p] = c] :
                 w \in Literals(FewChannelValues), p \in 1..7, c \in BadChars }
        \cup { w \o <<"0">> : w \in Literals(FewChannelValues) }
        \cup { << "r", "e", "d" >> }
      : ~IsHexLiteral(str) }

InitContrast ==
    /\ cArgs \in WellFormedInputs \cup MalformedInputs
    /\ cRet = NotCalled
    /\ StateIdle /\ HIdle /\ XIdle

CallGetContrastColor ==
    /\ cRet = NotCalled
    /\ cRet' = getContrastColor(cArgs)
    /\ UNCHANGED <<cArgs, stateVars, hVars, xVars>>

NextContrast == CallGetContrastColor

SpecContrast == InitContrast /\ [][NextContrast]_vars

CCalled == cRet # NotCalled

\* The value of the two hexadecimal digits at positions i and i+1.
ByteAt(str, i) == 16 * DigitValue(str[i]) + DigitValue(str[i + 1])

\* C8: for every well-formed #RRGGBB input getContrastColor returns "#0f1219"
\* exactly when (299*r + 587*g + 114*b)/1000 >= 128 and "#ffffff" otherwise;
\* "#FFFFFF" gives "#0f1219", "#000000" gives "#ffffff", and no other value
\* is returned.
C8_ContrastThreshold ==
    (CCalled /\ IsHexLiteral(cArgs)) =>
        LET sum == 299 * ByteAt(cArgs, 2) + 587 * ByteAt(cArgs, 4)
                     + 114 * ByteAt(cArgs, 6)
        IN  /\ cRet.kind = "return"
            /\ cRet.value \in {DarkColor, LightColor}
            /\ (cRet.value = DarkColor <=> sum >= 128000)
            /\ (cArgs = << "#", "F", "F", "F", "F", "F", "F" >>
                  => cRet.value = << "#", "0", "f", "1", "2", "1", "9" >>)
            /\ (cArgs = << "#", "0", "0", "0", "0", "0", "0" >>
                  => cRet.value = << "#", "f", "f", "f", "f", "f", "f" >>)

\* Mid grey, whose yiq is exactly 128, has been given the dark colour.
C8_Witness ==
    /\ CCalled
    /\ cArgs = << "#", "8", "0", "8", "0", "8", "0" >>
    /\ cRet = Returned(DarkColor)

\* The two-character channel field that starts at index start (0-based) is
\* missing, or starts with a character parseInt cannot begin a number with.
FieldUnparsable(str, start) ==
    \/ Len(str) <= start
    \/ ~(IsHexDigit(str[start + 1]) \/ str[start + 1] \in {"+", "-", " "})

\* C9 as stated: getContrastColor given a string that is not a 7-character
\* #RRGGBB literal fails with an InvalidFormat error and returns no colour.
C9_MalformedFails ==
    (CCalled /\ ~IsHexLiteral(cArgs)) => cRet.kind = "InvalidFormat"

\* C9 as amended: getContrastColor given a string that is not a 7-character
\* #RRGGBB literal raises no error: it returns "#0f1219" or "#ffffff", and it
\* returns "#ffffff" whenever a channel field is missing or starts with a
\* character no number starts with (the channel is NaN, and NaN >= 128 is
\* false), as for "red", "#FFF" and "".
C9_MalformedReturnsColor ==
    (CCalled /\ ~IsHexLiteral(cArgs)) =>
        /\ cRet.kind = "return"
        /\ cRet.value \in {DarkColor, LightColor}
        /\ (\E start \in {1, 3, 5} : FieldUnparsable(cArgs, start))
              => cRet.value = LightColor
        /\ cArgs \in { << "r", "e", "d" >>, << "#", "F", "F", "F" >>, <<>> }
              => cRet.value = LightColor

\* "#FFF" has been answered with the light colour.
C9_Witness ==
    /\ CCalled
    /\ cArgs = << "#", "F", "F", "F" >>
    /\ cRet = Returned(LightColor)

=============================================================================
